---- MODULE Spec2Model ----
(***************************************************************************)
(* Model of bin/sam_to_confidence.py: the depth loader (load_depth_file),  *)
(* the alignment aggregator (process_bam_file), the formatter (fm) and the *)
(* statistics reporter (output_statistics), run in sequence by main.       *)
(*                                                                         *)
(* Python dicts are functions whose DOMAIN is the key set; a lookup of a   *)
(* missing key is a KeyError, a division by zero a ZeroDivisionError.      *)
(* Float quantities are kept exact: a quotient is held by its numerator    *)
(* and its (positive) denominator, the standard deviation by N and c where *)
(* it is sqrt(N) / c.                                                      *)
(***************************************************************************)
EXTENDS Integers, Sequences, FiniteSets, Bags, TLC

VARIABLES pc, bam_header, depth, total_positions, records, coverage, count,
          sumsq, ireads, countreads, total_reads_aligned, ilen, file,
          stdout, error, errorRef, fmIn, fmOut

vars == <<pc, bam_header, depth, total_positions, records, coverage, count,
          sumsq, ireads, countreads, total_reads_aligned, ilen, file,
          stdout, error, errorRef, fmIn, fmOut>>

-----------------------------------------------------------------------------
(* Bounds of the model.                                                    *)

\* the length of a reference, and the largest position of a depth file
MaxLen == 2
\* number of lines of the depth file
MaxLines == 2
\* number of records of the alignment file
MaxReads == 2
\* largest numerator of a value handed to fm in SpecFm
MaxNum == 30

\* reference names of the depth file
Refs == {"chr1", "chr2"}
\* depths of a depth file
DepthVals == {20, 301}
\* positions of a depth file: samtools depth numbers them from 1
Positions == 1..MaxLen
\* denominators of the values handed to fm in SpecFm
FmDens == {1, 3, 8, 100, 1000}

\* the empty dict
EmptyDict == [k \in {} |-> 0]

\* d[k] = v, inserting k when absent
Put(d, k, v) == [x \in (DOMAIN d) \cup {k} |-> IF x = k THEN v ELSE d[x]]

\* d.get(k, dflt)
Get(d, k, dflt) == IF k \in DOMAIN d THEN d[k] ELSE dflt

RECURSIVE SumOver(_, _)
\* sum(f.values()) for a dict f restricted to the keys S
SumOver(f, S) ==
    IF S = {} THEN 0
    ELSE LET k == CHOOSE x \in S : TRUE IN f[k] + SumOver(f, S \ {k})

SumValues(f) == SumOver(f, DOMAIN f)

-----------------------------------------------------------------------------
(* The inputs.                                                             *)

\* the references in the order a header lists them
RefOrder == <<"chr1", "chr2">>

\* headers of an alignment file: the first n references, each with its
\* length (a header names no reference twice)
BamHeaders ==
    { [i \in 1..n |-> <<RefOrder[i], MaxLen>>] : n \in 0..Len(RefOrder) }

HeaderNames(h) == { h[i][1] : i \in 1..Len(h) }

\* f.lengths[f.references.index(ref)]
HeaderLen(h, ref) == h[CHOOSE i \in 1..Len(h) : h[i][1] = ref][2]

\* an unmapped record: no reference, no coordinates
Unmapped == [mapped |-> FALSE, ref |-> "*", start |-> -1, end |-> -1]

\* the mapped records an alignment file with the header h can hold: 0-based
\* start, exclusive end, at least one base, within the reference
MappedRecords(h) ==
    { r \in [mapped : {TRUE}, ref : HeaderNames(h), start : 0..MaxLen,
             end : 0..MaxLen] :
        r.start < r.end /\ r.end <= HeaderLen(h, r.ref) }

-----------------------------------------------------------------------------
(* load_depth_file: one line of the depth file.                            *)

\* depth after the line "ref pos dp": the last value of a position wins
LoadedDepth(d, ref, pos, dp) ==
    Put(d, ref, Put(Get(d, ref, EmptyDict), pos, dp))

\* total_positions after a line of ref: one more, repeated position or not
LoadedPositions(tp, ref) == Put(tp, ref, Get(tp, ref, 0) + 1)

LinesRead == SumValues(total_positions)

-----------------------------------------------------------------------------
(* process_bam_file: one record of the alignment file.  The accumulators   *)
(* are carried as one record acc.                                          *)

Accumulators ==
    [coverage |-> coverage, count |-> count, sumsq |-> sumsq,
     ireads |-> ireads, countreads |-> countreads,
     total_reads_aligned |-> total_reads_aligned]

\* "if read.is_unmapped: continue"
IsSkipped(r) == ~r.mapped

\* as ReadCounted, the run's counter incremented inside the "if" that creates
\* the entries of the reference
ReadCountedOnFirst(acc, ref) ==
    LET fresh == ref \notin DOMAIN acc.coverage
        cov == IF fresh THEN Put(acc.coverage, ref, 0) ELSE acc.coverage
        cnt == IF fresh THEN Put(acc.count, ref, 0) ELSE acc.count
        ird == IF fresh THEN Put(acc.ireads, ref, 0) ELSE acc.ireads
        crd == IF fresh THEN Put(acc.countreads, ref, 0) ELSE acc.countreads
    IN [acc EXCEPT !.coverage = cov, !.count = cnt,
                   !.ireads = Put(ird, ref, ird[ref] + 1),
                   !.countreads = crd,
                   !.total_reads_aligned =
                       IF fresh THEN acc.total_reads_aligned + 1
                       ELSE acc.total_reads_aligned]

\* the entries of a reference are created at its first mapped record; the
\* record is then counted for its reference and for the run
ReadCounted(acc, ref) ==
    LET fresh == ref \notin DOMAIN acc.coverage
        cov == IF fresh THEN Put(acc.coverage, ref, 0) ELSE acc.coverage
        cnt == IF fresh THEN Put(acc.count, ref, 0) ELSE acc.count
        ird == IF fresh THEN Put(acc.ireads, ref, 0) ELSE acc.ireads
        crd == IF fresh THEN Put(acc.countreads, ref, 0) ELSE acc.countreads
    IN [acc EXCEPT !.coverage = cov, !.count = cnt,
                   !.ireads = Put(ird, ref, ird[ref] + 1),
                   !.countreads = crd,
                   !.total_reads_aligned = acc.total_reads_aligned + 1]

\* as PositionCounted, with "dp * 2" for "dp ** 2"
PositionCountedDoubled(acc, ref, pos, dep) ==
    LET a1 == [acc EXCEPT !.coverage = Put(@, ref, Get(@, ref, 0) + 1),
                          !.count = Put(@, ref, Get(@, ref, 0) + 1)]
    IN IF ref \in DOMAIN dep /\ pos \in DOMAIN dep[ref]
       THEN [a1 EXCEPT !.sumsq = Put(@, ref, Get(@, ref, 0) + dep[ref][pos] * 2)]
       ELSE a1

\* one position of range(start, end): a base is counted for the reference
\* and, when the depth table records the position, its squared depth is
\* added; sumsq gets its entry at the first such position only
PositionCounted(acc, ref, pos, dep) ==
    LET a1 == [acc EXCEPT !.coverage = Put(@, ref, Get(@, ref, 0) + 1),
                          !.count = Put(@, ref, Get(@, ref, 0) + 1)]
    IN IF ref \in DOMAIN dep /\ pos \in DOMAIN dep[ref]
       THEN [a1 EXCEPT !.sumsq =
                Put(@, ref, Get(@, ref, 0) + dep[ref][pos] * dep[ref][pos])]
       ELSE a1

RECURSIVE BasesCounted(_, _, _, _, _)
\* "for pos in range(start, end)", from pos on
BasesCounted(acc, ref, pos, end, dep) ==
    IF pos >= end THEN acc
    ELSE BasesCounted(PositionCounted(acc, ref, pos, dep), ref, pos + 1, end, dep)

\* the accumulators after the record r
Aggregated(acc, r, dep) ==
    IF IsSkipped(r) THEN acc
    ELSE BasesCounted(ReadCounted(acc, r.ref), r.ref, r.start, r.end, dep)

-----------------------------------------------------------------------------
(* Numbers.  Rat(n, d) is the quotient n / d, Root(n, d) is sqrt(n) / d;   *)
(* d > 0.  The arithmetic is exact; of the floats' rounding the model      *)
(* keeps the one a single division leaves in an exact half of a hundredth, *)
(* which decides how "%.2f" rounds it.                                     *)

Rat(n, d) == [n |-> n, d |-> d, root |-> FALSE]
Root(n, d) == [n |-> n, d |-> d, root |-> TRUE]

Abs(i) == IF i < 0 THEN -i ELSE i

RECURSIVE ISqrtIn(_, _, _)
\* the integer square root of n, known to lie in lo..(hi - 1)
ISqrtIn(n, lo, hi) ==
    IF hi - lo <= 1 THEN lo
    ELSE LET mid == (lo + hi) \div 2
         IN IF mid * mid <= n THEN ISqrtIn(n, mid, hi) ELSE ISqrtIn(n, lo, mid)

ISqrt(n) == ISqrtIn(n, 0, IF n + 1 < 46340 THEN n + 1 ELSE 46340)

\* a * a <= 40000 * n for a, n >= 0, without leaving 32 bits
SqLe(a, n) ==
    LET u == a \div 200
        v == a % 200
    IN IF n < u * u THEN FALSE
       ELSE IF n - u * u >= 2 * u + 1 THEN TRUE
       ELSE 400 * u * v + v * v <= 40000 * (n - u * u)

RECURSIVE RootHundredthsIn(_, _, _, _)
\* the largest h in lo..(hi - 1) with (2h - 1) * d <= 200 * sqrt(n)
RootHundredthsIn(n, d, lo, hi) ==
    IF hi - lo <= 1 THEN lo
    ELSE LET mid == (lo + hi) \div 2
         IN IF SqLe((2 * mid - 1) * d, n)
            THEN RootHundredthsIn(n, d, mid, hi)
            ELSE RootHundredthsIn(n, d, lo, mid)

\* x == 0
IsZero(x) == x.n = 0

\* x > 0
IsPositive(x) == x.n > 0

\* x < 0.01
Below001(x) ==
    IF x.root THEN x.n < (x.d * x.d + 9999) \div 10000 ELSE 100 * x.n < x.d

RECURSIVE Mantissa(_, _, _, _)
\* the binary long division r / d carried on for `bits` more bits after a
\* mantissa whose last bit is `odd`: 1 when the double nearest to the
\* quotient lies above it, -1 when below, 0 when the quotient is a double
Mantissa(r, d, bits, odd) ==
    IF bits = 0
    THEN IF r = 0 THEN 0
         ELSE IF 2 * r > d THEN 1
         ELSE IF 2 * r < d THEN -1
         ELSE IF odd THEN 1 ELSE -1
    ELSE Mantissa((2 * r) % d, d, bits - 1, 2 * r >= d)

RECURSIVE RoundDir(_, _)
\* the direction in which the float division n / d (n, d > 0) rounds
RoundDir(n, d) ==
    IF n >= 2 * d THEN RoundDir(n, 2 * d)
    ELSE IF n < d THEN RoundDir(2 * n, d)
    ELSE Mantissa(n - d, d, 52, TRUE)

\* |x| in hundredths as "%.2f" rounds the double x: to the nearest, and when
\* the quotient is exactly a half, by the side of it the double lies on (to
\* the even one when the double is the half itself)
RatHundredths(n, d) ==
    LET m == 100 * n
        q == m \div d
        r == m % d
    IN IF 2 * r < d THEN q
       ELSE IF 2 * r > d THEN q + 1
       ELSE IF RoundDir(n, d) > 0 THEN q + 1
       ELSE IF RoundDir(n, d) < 0 THEN q
       ELSE IF q % 2 = 0 THEN q ELSE q + 1

Hundredths(x) ==
    IF ~x.root THEN RatHundredths(Abs(x.n), x.d)
    ELSE IF ISqrt(x.n) * ISqrt(x.n) = x.n THEN RatHundredths(ISqrt(x.n), x.d)
    ELSE RootHundredthsIn(x.n, x.d, 0, (100 * (ISqrt(x.n) + 1)) \div x.d + 2)

\* f"{x:.2f}"
Fixed2(x) ==
    LET h == Hundredths(x)
        frac == h % 100
    IN (IF x.n < 0 THEN "-" ELSE "") \o ToString(h \div 100) \o "."
       \o (IF frac < 10 THEN "0" ELSE "") \o ToString(frac)

\* as fm, with "x <= 0.01" for "x < 0.01"
fmInclusive(x) ==
    IF IsZero(x) THEN "0"
    ELSE IF IsPositive(x)
            /\ (Below001(x) \/ (IF x.root THEN 10000 * x.n = x.d * x.d
                                           ELSE 100 * x.n = x.d))
    THEN "<0.01"
    ELSE Fixed2(x)

\* fm(x), lines 134-141
fm(x) ==
    IF IsZero(x) THEN "0"
    ELSE IF IsPositive(x) /\ Below001(x) THEN "<0.01"
    ELSE Fixed2(x)

-----------------------------------------------------------------------------
(* output_statistics: one reference of ilen.  st holds the arguments of    *)
(* the call.                                                               *)

Stats ==
    [depth |-> depth, total_positions |-> total_positions,
     coverage |-> coverage, count |-> count, sumsq |-> sumsq,
     ireads |-> ireads, ilen |-> ilen,
     total_reads_aligned |-> total_reads_aligned]

headers ==
    <<"Accession", "Mean Depth", "Average Coverage", "Ref Size",
      "Total Reads Aligned", "% Reads Aligned", "Stdev", "Abundance Aligned",
      "1:10:50:100:300X Cov.">>

Thresholds == <<1, 10, 50, 100, 300>>

\* as HasCoverage, with the test of coverage dropped
HasCoverageUnchecked(st, ref) == ref \in DOMAIN st.ilen

\* "if ref in coverage and ref in ilen"
HasCoverage(st, ref) == ref \in DOMAIN st.coverage /\ ref \in DOMAIN st.ilen

\* as InDepthTable, the test dropped
InDepthTableUnchecked(st, ref) == TRUE

\* "if ref in depth"
InDepthTable(st, ref) == ref \in DOMAIN st.depth

\* as AvgCoverage, over the recorded positions for the reference length
AvgCoverageOverRecorded(st, ref) ==
    Rat(st.coverage[ref], Get(st.total_positions, ref, 1))

\* avg_coverage = coverage[ref] / ilen[ref]
AvgCoverage(st, ref) == Rat(st.coverage[ref], st.ilen[ref])

\* total_depth = sum(depth[ref].values())
TotalDepth(st, ref) == SumValues(st.depth[ref])

\* avgDepth = total_depth / total_positions[ref]
AvgDepth(st, ref) == Rat(TotalDepth(st, ref), st.total_positions[ref])

\* as NewThresholds, with "v < t" for "v > t"
NewThresholdsBelow(st, ref, t) ==
    Cardinality({ p \in DOMAIN st.depth[ref] : st.depth[ref][p] < t })

\* newThresholds[t] = sum(1 for v in depth[ref].values() if v > t)
NewThresholds(st, ref, t) ==
    Cardinality({ p \in DOMAIN st.depth[ref] : st.depth[ref][p] > t })

\* xCov = [100 * newThresholds[t] / ilen[ref] for t in thresholds]
XCov(st, ref) ==
    [i \in 1..Len(Thresholds) |->
        Rat(100 * NewThresholds(st, ref, Thresholds[i]), st.ilen[ref])]

\* sumsq/count - (total_depth/count)**2, times count**2
VarianceNum(st, ref) ==
    st.sumsq[ref] * st.count[ref] - TotalDepth(st, ref) * TotalDepth(st, ref)

\* stdev = sqrt(abs(sumsq/count - (total_depth/count)**2))
Stdev(st, ref) == Root(Abs(VarianceNum(st, ref)), st.count[ref])

\* abu_total_aligned = ireads[ref] / total_reads_aligned
Abundance(st, ref) == Rat(st.ireads[ref], st.total_reads_aligned)

\* 100*(ireads[ref]/total_reads_aligned)
PctReads(st, ref) == Rat(100 * st.ireads[ref], st.total_reads_aligned)

RECURSIVE JoinColon(_, _)
\* ':'.join(xs[i..])
JoinColon(xs, i) ==
    IF i > Len(xs) THEN ""
    ELSE IF i = Len(xs) THEN xs[i]
    ELSE xs[i] \o ":" \o JoinColon(xs, i + 1)

\* the fields of outstring, in order (joined by tabs in the file)
Row(st, ref) ==
    [accession |-> ref,
     meanDepth |-> fm(AvgDepth(st, ref)),
     avgCoverage |-> fm(AvgCoverage(st, ref)),
     refSize |-> ToString(st.ilen[ref]),
     reads |-> ToString(st.ireads[ref]),
     pctReads |-> fm(PctReads(st, ref)),
     stdev |-> fm(Stdev(st, ref)),
     abundance |-> fm(Abundance(st, ref)),
     xcov |-> JoinColon([i \in 1..Len(Thresholds) |-> fm(XCov(st, ref)[i])], 1)]

\* the exception, if any, that the body of the loop raises for ref, in the
\* order the lines 161-175 evaluate their lookups and divisions
Raised(st, ref) ==
    IF ref \notin DOMAIN st.coverage THEN "KeyError"
    ELSE IF st.ilen[ref] = 0 THEN "ZeroDivisionError"
    ELSE IF ~InDepthTable(st, ref) THEN "none"
    ELSE IF ref \notin DOMAIN st.depth THEN "KeyError"
    ELSE IF ref \notin DOMAIN st.total_positions THEN "KeyError"
    ELSE IF st.total_positions[ref] = 0 THEN "ZeroDivisionError"
    ELSE IF ref \notin DOMAIN st.sumsq THEN "KeyError"
    ELSE IF ref \notin DOMAIN st.count THEN "KeyError"
    ELSE IF st.count[ref] = 0 THEN "ZeroDivisionError"
    ELSE IF ref \notin DOMAIN st.ireads THEN "KeyError"
    ELSE IF st.total_reads_aligned = 0 THEN "ZeroDivisionError"
    ELSE "none"

\* what the loop does for ref: "skip", "row" or "raise"
Outcome(st, ref) ==
    IF ~HasCoverage(st, ref) THEN "skip"
    ELSE IF Raised(st, ref) # "none" THEN "raise"
    ELSE IF ~InDepthTable(st, ref) THEN "skip"
    ELSE "row"

RECURSIVE ReportFrom(_, _, _, _)
\* "for ref in ilen" from the i-th reference of order on, with the rows
\* written so far: the rows in the end, the exception raised, if any, and
\* the reference it was raised at
ReportFrom(st, order, i, rows) ==
    IF i > Len(order)
    THEN [file |-> rows, error |-> "none", errorRef |-> "none"]
    ELSE LET ref == order[i]
         IN CASE Outcome(st, ref) = "raise" ->
                   [file |-> rows, error |-> Raised(st, ref), errorRef |-> ref]
              [] Outcome(st, ref) = "row" ->
                   ReportFrom(st, order, i + 1, Append(rows, Row(st, ref)))
              [] OTHER -> ReportFrom(st, order, i + 1, rows)

-----------------------------------------------------------------------------
(* main: the three stages in sequence.                                     *)

Init ==
    /\ pc = "load"
    /\ bam_header \in BamHeaders
    /\ depth = EmptyDict
    /\ total_positions = EmptyDict
    /\ records = EmptyBag
    /\ coverage = EmptyDict
    /\ count = EmptyDict
    /\ sumsq = EmptyDict
    /\ ireads = EmptyDict
    /\ countreads = EmptyDict
    /\ total_reads_aligned = 0
    /\ ilen = EmptyDict
    /\ file = <<>>
    /\ stdout = <<>>
    /\ error = "none"
    /\ errorRef = "none"
    /\ fmIn = Rat(0, 1)
    /\ fmOut = "none"

aggVars == <<records, coverage, count, sumsq, ireads, countreads,
             total_reads_aligned>>
fmVars == <<fmIn, fmOut>>

\* an uncaught exception ends the process
Abort(exc, ref) ==
    /\ pc' = "failed"
    /\ error' = exc
    /\ errorRef' = ref

\* load_depth_file reads a well-formed line
LoadDepthLine ==
    /\ pc = "load"
    /\ LinesRead < MaxLines
    /\ \E ref \in Refs, pos \in Positions, dp \in DepthVals :
          /\ depth' = LoadedDepth(depth, ref, pos, dp)
          /\ total_positions' = LoadedPositions(total_positions, ref)
    /\ UNCHANGED <<pc, bam_header, aggVars, ilen, file, stdout, error,
                   errorRef, fmVars>>

\* load_depth_file reads a line with a missing column or a non-integer
MalformedDepthLine ==
    /\ pc = "load"
    /\ Abort("ValueError", "none")
    /\ UNCHANGED <<bam_header, depth, total_positions, aggVars, ilen, file, stdout, fmVars>>

\* load_depth_file returns
EndOfDepthFile ==
    /\ pc = "load"
    /\ pc' = "index"
    /\ UNCHANGED <<bam_header, depth, total_positions, aggVars, ilen, file, stdout, error, errorRef, fmVars>>

\* ensure_bam_index: pysam.index succeeds
EnsureBamIndex ==
    /\ pc = "index"
    /\ pc' = "scan"
    /\ UNCHANGED <<bam_header, depth, total_positions, aggVars, ilen, file, stdout, error, errorRef, fmVars>>

\* ensure_bam_index: the alignment file cannot be indexed
IndexFails ==
    /\ pc = "index"
    /\ Abort("SamtoolsError", "none")
    /\ UNCHANGED <<bam_header, depth, total_positions, aggVars, ilen, file, stdout, fmVars>>

\* process_bam_file: the body of "for read in f.fetch()" for one record
ProcessRecord ==
    /\ pc = "scan"
    /\ BagCardinality(records) < MaxReads
    /\ \E r \in MappedRecords(bam_header) \cup {Unmapped} :
          \E acc \in {Aggregated(Accumulators, r, depth)} :
             /\ records' = records (+) SetToBag({r})
             /\ coverage' = acc.coverage
             /\ count' = acc.count
             /\ sumsq' = acc.sumsq
             /\ ireads' = acc.ireads
             /\ countreads' = acc.countreads
             /\ total_reads_aligned' = acc.total_reads_aligned
    /\ UNCHANGED <<pc, bam_header, depth, total_positions, ilen, file,
                   stdout, error, errorRef, fmVars>>

\* process_bam_file: the records are exhausted, the lengths are read from
\* the header and the function returns
EndOfRecords ==
    /\ pc = "scan"
    /\ ilen' = [ref \in HeaderNames(bam_header) |-> HeaderLen(bam_header, ref)]
    /\ pc' = "report"
    /\ UNCHANGED <<bam_header, depth, total_positions, aggVars, file, stdout,
                   error, errorRef, fmVars>>

\* the keys of ilen in the order the header lists them
IlenOrder == [i \in 1..Len(bam_header) |-> bam_header[i][1]]

\* some reference of ilen makes the loop raise
LoopRaises == \E i \in 1..Len(IlenOrder) : Outcome(Stats, IlenOrder[i]) = "raise"

\* output_statistics prints the column names, writes and prints the row of
\* each reference and returns; main returns
OutputStatistics ==
    /\ pc = "report"
    /\ ~LoopRaises
    /\ \E res \in {ReportFrom(Stats, IlenOrder, 1, <<>>)} :
          /\ res.error = "none"
          /\ file' = res.file
          /\ stdout' = <<headers>> \o res.file
    /\ pc' = "done"
    /\ UNCHANGED <<bam_header, depth, total_positions, aggVars, ilen, error,
                   errorRef, fmVars>>

\* output_statistics raises at a reference: the file is closed with the rows
\* written before it
OutputStatisticsRaises ==
    /\ pc = "report"
    /\ LoopRaises
    /\ \E res \in {ReportFrom(Stats, IlenOrder, 1, <<>>)} :
          /\ res.error # "none"
          /\ file' = res.file
          /\ stdout' = <<headers>> \o res.file
          /\ Abort(res.error, res.errorRef)
    /\ UNCHANGED <<bam_header, depth, total_positions, aggVars, ilen, fmVars>>

Next ==
    \/ LoadDepthLine
    \/ MalformedDepthLine
    \/ EndOfDepthFile
    \/ EnsureBamIndex
    \/ IndexFails
    \/ ProcessRecord
    \/ EndOfRecords
    \/ OutputStatistics
    \/ OutputStatisticsRaises

Spec == Init /\ [][Next]_vars

-----------------------------------------------------------------------------
(* fm alone, applied to values drawn from a bounded set.                   *)

FmInputs ==
    { [n |-> n, d |-> d, root |-> b] :
        n \in 0..MaxNum, d \in FmDens, b \in BOOLEAN }

InitFm ==
    /\ pc = "fm"
    /\ bam_header = <<>>
    /\ depth = EmptyDict
    /\ total_positions = EmptyDict
    /\ records = EmptyBag
    /\ coverage = EmptyDict
    /\ count = EmptyDict
    /\ sumsq = EmptyDict
    /\ ireads = EmptyDict
    /\ countreads = EmptyDict
    /\ total_reads_aligned = 0
    /\ ilen = EmptyDict
    /\ file = <<>>
    /\ stdout = <<>>
    /\ error = "none"
    /\ errorRef = "none"
    /\ fmIn \in FmInputs
    /\ fmOut = "none"

\* fm(x) is called
FmApply ==
    /\ pc = "fm"
    /\ fmOut = "none"
    /\ fmOut' = fm(fmIn)
    /\ UNCHANGED <<pc, bam_header, depth, total_positions, aggVars, ilen, file, stdout, error, errorRef, fmIn>>

\* the next value to format
FmNextValue ==
    /\ pc = "fm"
    /\ fmOut # "none"
    /\ fmIn' \in FmInputs
    /\ fmOut' = "none"
    /\ UNCHANGED <<pc, bam_header, depth, total_positions, aggVars, ilen, file, stdout, error, errorRef>>

NextFm == FmApply \/ FmNextValue

SpecFm == InitFm /\ [][NextFm]_vars

-----------------------------------------------------------------------------
(* What the records fetched so far amount to, computed from the records    *)
(* themselves.                                                             *)

\* the distinct mapped records on ref fetched so far
MappedOn(ref) == { r \in BagToSet(records) : r.mapped /\ r.ref = ref }

RECURSIVE ReadsIn(_)
\* the number of records of the set S of distinct records, with repetitions
ReadsIn(S) ==
    IF S = {} THEN 0
    ELSE LET r == CHOOSE x \in S : TRUE
         IN CopiesIn(r, records) + ReadsIn(S \ {r})

RECURSIVE BasesIn(_)
\* the sum of end - start over the records of S, with repetitions
BasesIn(S) ==
    IF S = {} THEN 0
    ELSE LET r == CHOOSE x \in S : TRUE
         IN CopiesIn(r, records) * (r.end - r.start) + BasesIn(S \ {r})

\* the sum of depth[ref][p]^2 over the positions p of [start, end) that
\* depth[ref] holds
SquaresOf(r) ==
    IF r.ref \in DOMAIN depth
    THEN SumOver([p \in DOMAIN depth[r.ref] |-> depth[r.ref][p] * depth[r.ref][p]],
                 { p \in DOMAIN depth[r.ref] : r.start <= p /\ p < r.end })
    ELSE 0

RECURSIVE SquaresIn(_)
SquaresIn(S) ==
    IF S = {} THEN 0
    ELSE LET r == CHOOSE x \in S : TRUE
         IN CopiesIn(r, records) * SquaresOf(r) + SquaresIn(S \ {r})

\* the references some mapped record fetched so far lies on
RefsWithReads == { r.ref : r \in { x \in BagToSet(records) : x.mapped } }

\* the number of mapped records fetched so far
NumMapped == ReadsIn({ r \in BagToSet(records) : r.mapped })

\* the rows of the output file that name ref
RowsOf(ref) == { i \in 1..Len(file) : file[i].accession = ref }

\* output_statistics has ended, by returning or by raising
Reported == pc = "done" \/ (pc = "failed" /\ stdout # <<>>)

\* x <= y for two quotients
RatLe(x, y) == x.n * y.d <= y.n * x.d

-----------------------------------------------------------------------------
(* C4: after any prefix of the alignment records, the per-reference read   *)
(* counts ireads[ref] sum to total_reads_aligned, and both equal the       *)
(* number of mapped records processed so far.                              *)
C4_ReadCountsSumToTotal ==
    /\ SumValues(ireads) = total_reads_aligned
    /\ total_reads_aligned = NumMapped

\* two mapped records on the same reference have been counted
C4_Witness ==
    /\ pc = "scan"
    /\ total_reads_aligned = 2
    /\ \E ref \in DOMAIN ireads : ireads[ref] = 2

(* C7: when process_bam_file has returned, for every reference ireads is   *)
(* the number of mapped records on it, coverage and count are the sum of   *)
(* end - start over them, sumsq is the sum of depth[ref][p]^2 over their   *)
(* positions p in [start, end) present in depth[ref] (a reference without  *)
(* an entry standing for 0); unmapped records leave no trace in the        *)
(* accumulators, and the pass does not modify the DepthTable.              *)
C7_AccumulatorsAtReturn ==
    /\ [](pc = "report" \/ Reported
          => /\ \A ref \in Refs \cup DOMAIN ireads \cup DOMAIN coverage
                         \cup DOMAIN count \cup DOMAIN sumsq :
                   /\ Get(ireads, ref, 0) = ReadsIn(MappedOn(ref))
                   /\ Get(coverage, ref, 0) = BasesIn(MappedOn(ref))
                   /\ Get(count, ref, 0) = BasesIn(MappedOn(ref))
                   /\ Get(sumsq, ref, 0) = SquaresIn(MappedOn(ref))
             /\ DOMAIN ireads = RefsWithReads
             /\ DOMAIN coverage = RefsWithReads
             /\ DOMAIN sumsq \subseteq RefsWithReads)
    /\ [][pc = "scan" => depth' = depth /\ total_positions' = total_positions]_vars

\* the pass has returned after a mapped record over a recorded position, a
\* mapped record over none, and nothing else
C7_Witness ==
    /\ pc = "report"
    /\ Unmapped \notin BagToSet(records)
    /\ \E ref \in DOMAIN sumsq : sumsq[ref] > 0 /\ coverage[ref] > 1
    /\ \E ref \in DOMAIN coverage : ref \notin DOMAIN sumsq /\ ref \in DOMAIN depth

\* the pass has returned after an unmapped record and a mapped one
C7_WitnessUnmapped ==
    /\ pc = "report"
    /\ Unmapped \in BagToSet(records)
    /\ total_reads_aligned = 1

(* C8: for a reported reference, the threshold coverage percentages of the *)
(* cutoffs 1, 10, 50, 100, 300 are non-increasing in that order.           *)
C8_ThresholdsNonIncreasing ==
    Reported =>
        \A ref \in DOMAIN ilen :
            HasCoverage(Stats, ref) /\ InDepthTable(Stats, ref) =>
                \A i, j \in 1..Len(Thresholds) :
                    i < j => RatLe(XCov(Stats, ref)[j], XCov(Stats, ref)[i])

\* a row was written for a reference whose percentages fall from the cutoff
\* 10 to the cutoff 50 and are not zero at 300
C8_Witness ==
    /\ pc = "done"
    /\ \E i \in 1..Len(file) :
          LET x == XCov(Stats, file[i].accession)
          IN x[2].n > x[3].n /\ x[5].n > 0

-----------------------------------------------------------------------------
(* C9: fm renders a non-negative value as "0" exactly when it is zero, as  *)
(* "<0.01" exactly when it is positive and below 0.01, and otherwise with  *)
(* two decimal digits, rounded to the nearest hundredth; fm(0.01) is       *)
(* "0.01".                                                                 *)

Digit == <<"0", "1", "2", "3", "4", "5", "6", "7", "8", "9">>

RECURSIVE Decimal(_)
\* the decimal digits of h >= 0
Decimal(h) ==
    IF h < 10 THEN Digit[h + 1] ELSE Decimal(h \div 10) \o Digit[(h % 10) + 1]

\* h hundredths, written with two decimal digits
TwoDecimals(h) ==
    Decimal(h \div 100) \o "." \o Digit[((h \div 10) % 10) + 1] \o Digit[(h % 10) + 1]

\* h is within half a hundredth of x
NearestHundredth(x, h) ==
    IF x.root
    THEN /\ h >= 1 => (2 * h - 1) * (2 * h - 1) * x.d * x.d <= 40000 * x.n
         /\ 40000 * x.n <= (2 * h + 1) * (2 * h + 1) * x.d * x.d
    ELSE /\ (2 * h - 1) * x.d <= 200 * x.n
         /\ 200 * x.n <= (2 * h + 1) * x.d

-----------------------------------------------------------------------------------------------------------------------------------------------------
(* The report with a reference left out of the header.                     *)

\* the names of the header other than ref, in order
OrderWithout(ref) == SelectSeq(IlenOrder, LAMBDA x : x # ref)

\* the arguments of output_statistics had ref not been in the header
StatsWithout(ref) ==
    [Stats EXCEPT !.ilen = [x \in (DOMAIN ilen) \ {ref} |-> ilen[x]]]

\* a reference of the header that is absent from the DepthTable or has no
\* mapped read
Unqualified(ref) ==
    /\ ref \in DOMAIN ilen
    /\ ref \notin DOMAIN depth \/ ref \notin RefsWithReads

(* C2: a reference of the header that is absent from the DepthTable, or    *)
(* that has no mapped read, gets no row and raises nothing, and the report *)
(* ends with the rows and the outcome it would have had with that          *)
(* reference left out of the header.                                       *)
C2_UnqualifiedSkipped ==
    \A ref \in Refs :
        Reported /\ Unqualified(ref) =>
            /\ RowsOf(ref) = {}
            /\ errorRef # ref
            /\ [file |-> file, error |-> error, errorRef |-> errorRef]
                  = ReportFrom(StatsWithout(ref), OrderWithout(ref), 1, <<>>)

\* the report ended with a row for one reference, after a reference with a
\* mapped read and no depth was passed over
C2_Witness ==
    /\ pc = "done"
    /\ Len(file) = 1
    /\ \E ref \in DOMAIN ilen :
          /\ ref \in RefsWithReads
          /\ ref \notin DOMAIN depth
          /\ file[1].accession # ref

(* C10 as stated: a run with no aligned read, or with a DepthTable         *)
(* reference of zero recorded positions, ends in a division by zero raised *)
(* by the reporter.                                                        *)
C10_ZeroConditionsRaise ==
    Reported /\ (\/ total_reads_aligned = 0
                 \/ \E ref \in DOMAIN depth : total_positions[ref] = 0)
        => pc = "failed" /\ error = "ZeroDivisionError"

(* C10, amended: a run with no aligned read goes through the reporter      *)
(* without raising and with no row, no division being evaluated; and every *)
(* reference of the DepthTable has at least one recorded position.         *)
C10_ZeroTotalCompletes ==
    /\ \A ref \in DOMAIN depth :
          ref \in DOMAIN total_positions /\ total_positions[ref] >= 1
    /\ pc = "report" /\ total_reads_aligned = 0 => ~LoopRaises
    /\ Reported /\ total_reads_aligned = 0 =>
          /\ pc = "done"
          /\ error = "none"
          /\ file = <<>>

\* a run over a two-reference header and a non-empty DepthTable ended with
\* no aligned read
C10_Witness ==
    /\ pc = "done"
    /\ total_reads_aligned = 0
    /\ Len(bam_header) = 2
    /\ DOMAIN depth = Refs
    /\ BagCardinality(records) > 0

-----------------------------------------------------------------------------
(* C1: every reference of the header with a mapped read and an entry in    *)
(* the DepthTable gets exactly one row, and output_statistics does not     *)
(* raise, wherever the reads lie relative to the recorded positions.       *)
C1_QualifyingRefGetsRow ==
    Reported =>
        /\ pc = "done"
        /\ \A ref \in DOMAIN ilen :
              ref \in RefsWithReads /\ ref \in DOMAIN depth =>
                  Cardinality(RowsOf(ref)) = 1

(* C3: the report is all-or-nothing: a run that fails leaves no row in the *)
(* output file, a run that completes leaves the row of every qualifying    *)
(* reference.                                                              *)
C3_AllOrNothing ==
    /\ pc = "failed" => file = <<>>
    /\ pc = "done" =>
          \A ref \in DOMAIN ilen :
              ref \in RefsWithReads /\ ref \in DOMAIN depth => RowsOf(ref) # {}

\* the depth file of C5: one reference, the positions 1..n, each once, all
\* at the depth d
UniformDepth(ref, n, d) ==
    /\ DOMAIN depth = {ref}
    /\ DOMAIN depth[ref] = 1..n
    /\ total_positions[ref] = n
    /\ \A p \in 1..n : depth[ref][p] = d

\* the alignment file of C5: one mapped record, spanning the positions 1..n
\* of ref, as pysam numbers them (from 0) or as the depth file does
OneReadSpanning(ref, n) ==
    /\ NumMapped = 1
    /\ \E r \in MappedOn(ref) :
          \/ r.start = 0 /\ r.end = n
          \/ r.start = 1 /\ r.end = n + 1

(* C5: with the positions 1..n of one reference all at depth d and one     *)
(* mapped read spanning them, the row shows Mean Depth d.00, Total Reads   *)
(* Aligned 1, % Reads Aligned 100.00 and Stdev 0.00, the quantity under    *)
(* the square root being zero.                                             *)
C5_UniformDepthRow ==
    \A ref \in Refs, n \in 1..MaxLen, d \in DepthVals :
        Reported /\ ref \in DOMAIN ilen /\ UniformDepth(ref, n, d)
                 /\ OneReadSpanning(ref, n) =>
            /\ pc = "done"
            /\ Len(file) = 1
            /\ file[1].accession = ref
            /\ file[1].meanDepth = Decimal(d) \o ".00"
            /\ file[1].reads = "1"
            /\ file[1].pctReads = "100.00"
            /\ file[1].stdev = "0.00"
            /\ VarianceNum(Stats, ref) = 0

\* the positions of ref that some mapped record overlaps
Overlapped(ref) == UNION { r.start..(r.end - 1) : r \in MappedOn(ref) }

\* no position of ref is overlapped by two mapped records
NoOverlap(ref) ==
    /\ \A r \in MappedOn(ref) : CopiesIn(r, records) = 1
    /\ \A r1, r2 \in MappedOn(ref) :
          r1 # r2 => r1.end <= r2.start \/ r2.end <= r1.start

(* C6 as stated: the Average Coverage of a row is the number of distinct   *)
(* positions of the reference overlapped by a mapped read, over the        *)
(* reference length, overlapping reads included.                           *)
C6_AverageCoverageIsFraction ==
    \A i \in 1..Len(file) :
        file[i].avgCoverage =
            fm(Rat(Cardinality(Overlapped(file[i].accession)),
                   ilen[file[i].accession]))

(* C6, amended: the Average Coverage of a row is the number of aligned     *)
(* bases of the reference, the sum of end - start over its mapped reads,   *)
(* over the reference length; it is the fraction of the positions          *)
(* overlapped when no two reads of the reference overlap.                  *)
C6_AverageCoverageIsBasesOverLength ==
    \A i \in 1..Len(file) :
        LET ref == file[i].accession
        IN /\ file[i].avgCoverage = fm(Rat(BasesIn(MappedOn(ref)), ilen[ref]))
           /\ NoOverlap(ref) =>
                 file[i].avgCoverage =
                     fm(Rat(Cardinality(Overlapped(ref)), ilen[ref]))

\* a row was written for a reference with two reads over the same position
C6_Witness ==
    /\ pc = "done"
    /\ \E i \in 1..Len(file) :
          /\ ~NoOverlap(file[i].accession)
          /\ ireads[file[i].accession] = 2

====
